---- MODULE Spec2Model ----
(***************************************************************************)
(* Model of LilaClient (src/src/client.ts): the connection state machine,  *)
(* the pending-send queue, the session handshake and the connect timeout.  *)
(* Every socket, timer and public-method handler is one action.  The       *)
(* handlers are written as operators over a record of the instance's       *)
(* fields (and of the sockets it created) so that a handler can run        *)
(* another one synchronously, as the state observer does.                  *)
(* The inbound decoding (LilaClient.handleData with LilaSession's response *)
(* handler) has a specification of its own, DecodeSpec, and so has          *)
(* LilaServer (src/unnamed/part_001), ServerSpec.                          *)
(***************************************************************************)
EXTENDS Integers, Sequences, FiniteSets, TLC

\* Number of sockets the instance may create (connect() calls that open one).
MaxHandles == 2
\* Number of units (queued payloads plus written units) beyond which no
\* further send() is issued.
MaxUnits == 2
\* Number of lines kept of the output channel; no chunk is taken beyond it.
MaxLines == 2
\* Number of terminals LilaServer may create.
MaxTerminals == 5

Handles == 1..MaxHandles
Terminals == 1..MaxTerminals
\* Texts handed to send(); "" is JavaScript's only falsy string.
Payload == {"a", "b", ""}
\* Values Date.now().toString() may give in the constructor.
SessionIds == {"17", "42"}
States == {"disconnected", "connecting", "connected", "error"}

\* What options.onStateChange does when it is called: nothing, send(p) or
\* disconnect().  (connect() is not re-entrant and is left out.)
Reactions ==
    {[k |-> "none", p |-> ""], [k |-> "disconnect", p |-> ""]}
        \cup {[k |-> "send", p |-> p] : p \in Payload}
NoReaction == [k |-> "none", p |-> ""]

VARIABLES
    state,          \* this.state
    socket,         \* this.socket: 0 is null, else the handle
    sessionId,      \* this.sessionId
    messageQueue,   \* this.messageQueue
    hPhase,         \* per handle: "unused", "opening" (created), "open" (established)
    hDestroyed,     \* per handle: socket.destroyed
    hWritten,       \* per handle not yet destroyed: the units passed to socket.write, in order
    hClosePending,  \* per handle: its 'close' event is due and not yet delivered
    timers,         \* the armed 5 s timers, oldest first (the attempt each belongs to)
    resolved,       \* per attempt: "none", "pending", "true", "false" (the promise)
    notified,       \* the states the observer was called with by the last handler
    hung,           \* the event loop is stuck inside flushQueue
    last,           \* the handler that ran last: [op, h, p]
    decoder,        \* the last 'data' event: [data, fails, delivered, uncaught]
    outputChannel,  \* LilaSession.outputChannel: the kind of each line appended
    server,         \* LilaServer: [state, process, terminal], 0 is null
    terminals,      \* per terminal: "none", "open" (created), "disposed"
    srvLast         \* the LilaServer method that ran last: [op, ret, seen]

clientVars == <<state, socket, sessionId, messageQueue, hPhase, hDestroyed,
                hWritten, hClosePending, timers, resolved, notified, hung, last>>
decodeVars == <<decoder, outputChannel>>
serverVars == <<server, terminals, srvLast>>
vars == <<clientVars, decodeVars, serverVars>>

\* The instance and its sockets as one record, with the observer's log emptied:
\* the starting point of every handler.
Cur ==
    [state |-> state, socket |-> socket, sessionId |-> sessionId,
     messageQueue |-> messageQueue, hPhase |-> hPhase, hDestroyed |-> hDestroyed,
     hWritten |-> hWritten, hClosePending |-> hClosePending, timers |-> timers,
     resolved |-> resolved, notified |-> <<>>, hung |-> hung]

Install(t, l) ==
    /\ state' = t.state
    /\ socket' = t.socket
    /\ sessionId' = t.sessionId
    /\ messageQueue' = t.messageQueue
    /\ hPhase' = t.hPhase
    /\ hDestroyed' = t.hDestroyed
    /\ hWritten' = t.hWritten
    /\ hClosePending' = t.hClosePending
    /\ timers' = t.timers
    /\ resolved' = t.resolved
    /\ notified' = t.notified
    /\ hung' = t.hung
    /\ last' = l
    /\ UNCHANGED <<decodeVars, serverVars>>

Tag(op, h, p) == [op |-> op, h |-> h, p |-> p]

----------------------------------------------------------------------------
\* Wire units

\* code + "\n"
Unit(code) == code \o "\n"

\* `@session ${this.sessionId}\n`
Handshake(id) == "@session " \o id \o "\n"

\* if (code): a string is truthy unless it is empty
Truthy(code) == code # ""

----------------------------------------------------------------------------
\* Sockets

\* socket.destroy(): marks the socket destroyed and schedules its 'close' event;
\* a no-op on a socket already destroyed (and on null, for this.socket?.destroy()).
\* No method writes to a destroyed socket, so its record of written units is
\* dropped here: hWritten describes the sockets that can still be written to.
Destroy(s, h) ==
    IF h = 0 \/ s.hDestroyed[h] THEN s
    ELSE [s EXCEPT !.hDestroyed[h] = TRUE, !.hClosePending[h] = TRUE,
                   !.hWritten[h] = <<>>]

\* socket.write(u)
Write(s, h, u) == [s EXCEPT !.hWritten[h] = Append(@, u)]

\* resolve(v): a promise settles once
Resolve(s, a, v) ==
    IF s.resolved[a] = "pending" THEN [s EXCEPT !.resolved[a] = v] ELSE s

----------------------------------------------------------------------------
\* The methods of LilaClient

\* A connect() that returns early only once the socket is established.
ConnectGuardEstablished(s) ==
    s.socket # 0 /\ ~s.hDestroyed[s.socket] /\ s.hPhase[s.socket] = "open"

\* connect(): if (this.socket && !this.socket.destroyed) return true
ConnectGuard(s) == s.socket # 0 /\ ~s.hDestroyed[s.socket]

\* send(): if (!this.socket || this.socket.destroyed)
SendGuard(s) == s.socket = 0 \/ s.hDestroyed[s.socket]

\* setupSession(): if (this.socket && !this.socket.destroyed)
SetupGuard(s) == s.socket # 0 /\ ~s.hDestroyed[s.socket]

\* send(code)
DoSend(s, code) ==
    IF SendGuard(s)
    THEN [s EXCEPT !.messageQueue = Append(@, code)]
    ELSE Write(s, s.socket, Unit(code))

\* setState(state) with an observer that does nothing
SetState0(s, st) == [s EXCEPT !.state = st, !.notified = Append(@, st)]

\* disconnect() with an observer that does nothing
Disconnect0(s) ==
    LET d == IF s.socket # 0
             THEN [Destroy(s, s.socket) EXCEPT !.socket = 0]
             ELSE s
    IN  SetState0(d, "disconnected")

\* options.onStateChange(state): the observer's reaction r, run synchronously
React(s, r) ==
    CASE r.k = "send" -> DoSend(s, r.p)
      [] r.k = "disconnect" -> Disconnect0(s)
      [] OTHER -> s

\* setState(state): assign, then call the observer
SetState(s, st, r) == React(SetState0(s, st), r)

\* A disconnect() that also empties the pending-send queue.
DoDisconnectClearsQueue(s, r) ==
    LET d == IF s.socket # 0
             THEN [Destroy(s, s.socket) EXCEPT !.socket = 0]
             ELSE s
    IN  SetState([d EXCEPT !.messageQueue = <<>>], "disconnected", r)

\* disconnect()
DoDisconnect(s, r) ==
    LET d == IF s.socket # 0
             THEN [Destroy(s, s.socket) EXCEPT !.socket = 0]
             ELSE s
    IN  SetState(d, "disconnected", r)

\* An isConnected() that trusts the cached state alone.
IsConnectedCached(s) == s.state = "connected"

\* isConnected()
IsConnected(s) ==
    s.state = "connected" /\ s.socket # 0 /\ ~s.hDestroyed[s.socket]

\* getState()
GetState(s) == s.state

\* setupSession()
SetupSession(s) ==
    IF SetupGuard(s) THEN Write(s, s.socket, Handshake(s.sessionId)) ELSE s

\* flushQueue(): while (length > 0) { code = shift(); if (code) send(code) }.
\* n is the number of entries the queue held when the loop began: each is
\* shifted once in n rounds, and an entry that send() put back then is put
\* back in every later round too, so the loop never ends.
RECURSIVE FlushLoop(_, _)
FlushLoop(s, n) ==
    IF Len(s.messageQueue) = 0 THEN s
    ELSE IF n = 0 THEN [s EXCEPT !.hung = TRUE]
    ELSE LET code == Head(s.messageQueue)
             s1 == [s EXCEPT !.messageQueue = Tail(@)]
             s2 == IF Truthy(code) THEN DoSend(s1, code) ELSE s1
         IN  FlushLoop(s2, n - 1)

FlushQueue(s) == FlushLoop(s, Len(s.messageQueue))

\* The handle net.createConnection returns: the next unused one.
NewHandle(s) == 1 + Cardinality({h \in Handles : s.hPhase[h] # "unused"})

\* connect()
DoConnect(s, r) ==
    IF ConnectGuard(s) THEN s
    ELSE LET s1 == SetState(s, "connecting", r)
             h == NewHandle(s)
         IN  [s1 EXCEPT !.socket = h, !.hPhase[h] = "opening",
                        !.resolved[h] = "pending", !.timers = Append(@, h)]

\* The connect listener of socket h
DoOnConnect(s, h, r) ==
    LET s1 == [s EXCEPT !.hPhase[h] = "open"]
        s2 == SetState(s1, "connected", r)
        s3 == SetupSession(s2)
        s4 == FlushQueue(s3)
    IN  IF s4.hung THEN s4 ELSE Resolve(s4, h, "true")

\* The 'error' listener of socket h (the socket is destroyed when it is emitted)
DoOnError(s, h, r) ==
    Resolve(SetState(Destroy(s, h), "error", r), h, "false")

\* The 'close' listener of socket h
DoOnClose(s, h, r) ==
    SetState([s EXCEPT !.hClosePending[h] = FALSE], "disconnected", r)

\* The setTimeout callback of attempt a
DoTimeout(s, a, r) ==
    LET s0 == [s EXCEPT !.timers = Tail(@)]
    IN  IF s0.state = "connecting"
        THEN Resolve(SetState(Destroy(s0, s0.socket), "error", r), a, "false")
        ELSE s0

----------------------------------------------------------------------------
\* The bound on send() calls

RECURSIVE PayloadUnits(_)
PayloadUnits(n) ==
    IF n = 0 THEN 0
    ELSE Len(SelectSeq(hWritten[n], LAMBDA u : u # Handshake(sessionId)))
            + PayloadUnits(n - 1)

CanSend == Len(messageQueue) + PayloadUnits(MaxHandles) < MaxUnits

ReactionsNow == {r \in Reactions : r.k = "send" => CanSend}

----------------------------------------------------------------------------
\* Actions

Init ==
    /\ state = "disconnected"
    /\ socket = 0
    /\ sessionId \in SessionIds
    /\ messageQueue = <<>>
    /\ hPhase = [h \in Handles |-> "unused"]
    /\ hDestroyed = [h \in Handles |-> FALSE]
    /\ hWritten = [h \in Handles |-> <<>>]
    /\ hClosePending = [h \in Handles |-> FALSE]
    /\ timers = <<>>
    /\ resolved = [h \in Handles |-> "none"]
    /\ notified = <<>>
    /\ hung = FALSE
    /\ last = Tag("init", 0, "")
    /\ decoder = [data |-> "", fails |-> FALSE, delivered |-> <<>>,
                  uncaught |-> FALSE]
    /\ outputChannel = <<>>
    /\ server = [state |-> "stopped", process |-> 0, terminal |-> 0]
    /\ terminals = [i \in Terminals |-> "none"]
    /\ srvLast = [op |-> "init", ret |-> FALSE, seen |-> <<>>]

\* connect(); last.h is the handle it opened, 0 when it returned true at once
Connect(r) ==
    /\ ~hung
    /\ IF ConnectGuard(Cur)
       THEN /\ r = NoReaction
            /\ Install(DoConnect(Cur, r), Tag("connect", 0, ""))
       ELSE /\ NewHandle(Cur) <= MaxHandles
            /\ Install(DoConnect(Cur, r), Tag("connect", NewHandle(Cur), ""))

Disconnect(r) ==
    /\ ~hung
    /\ Install(DoDisconnect(Cur, r), Tag("disconnect", 0, ""))

Send(p) ==
    /\ ~hung
    /\ CanSend
    /\ Install(DoSend(Cur, p), Tag("send", 0, p))

\* Socket h is established and its connect listener runs
OnConnect(h, r) ==
    /\ ~hung
    /\ hPhase[h] = "opening"
    /\ ~hDestroyed[h]
    /\ Install(DoOnConnect(Cur, h, r), Tag("onConnect", h, ""))

\* Socket h fails (refused, reset, I/O error) and its 'error' listener runs
OnError(h, r) ==
    /\ ~hung
    /\ hPhase[h] \in {"opening", "open"}
    /\ ~hDestroyed[h]
    /\ Install(DoOnError(Cur, h, r), Tag("onError", h, ""))

\* The remote end closes established socket h: it is destroyed, 'close' is due
RemoteClose(h) ==
    /\ ~hung
    /\ hPhase[h] = "open"
    /\ ~hDestroyed[h]
    /\ Install(Destroy(Cur, h), Tag("remoteClose", h, ""))

\* The 'close' event of socket h is delivered
OnClose(h, r) ==
    /\ ~hung
    /\ hClosePending[h]
    /\ Install(DoOnClose(Cur, h, r), Tag("onClose", h, ""))

\* The oldest armed timer fires
Timeout(r) ==
    /\ ~hung
    /\ timers # <<>>
    /\ Install(DoTimeout(Cur, Head(timers), r), Tag("timeout", Head(timers), ""))

Next ==
    \/ \E r \in ReactionsNow : Connect(r)
    \/ \E r \in ReactionsNow : Disconnect(r)
    \/ \E p \in Payload : Send(p)
    \/ \E h \in Handles, r \in ReactionsNow : OnConnect(h, r)
    \/ \E h \in Handles, r \in ReactionsNow : OnError(h, r)
    \/ \E h \in Handles : RemoteClose(h)
    \/ \E h \in Handles, r \in ReactionsNow : OnClose(h, r)
    \/ \E r \in ReactionsNow : Timeout(r)

Spec == Init /\ [][Next]_vars

----------------------------------------------------------------------------
\* Inbound decoding: LilaClient.handleData and LilaSession.handleResponse

\* JavaScript values of the fields read: [ty, v], v written as text
Undefined == [ty |-> "undefined", v |-> ""]
Str(v) == [ty |-> "string", v |-> v]
Num(v) == [ty |-> "number", v |-> v]
Bool(v) == [ty |-> "boolean", v |-> v]

\* if (x), x || y: undefined, 0, false and "" are falsy
JsTruthy(x) ==
    ~ \/ x.ty = "undefined"
      \/ x.ty = "number" /\ x.v = "0"
      \/ x.ty = "boolean" /\ x.v = "false"
      \/ x.ty = "string" /\ x.v = ""

\* What JSON.parse returns, with the fields the handlers read
Obj(status, result, message) ==
    [t |-> "object", status |-> status, result |-> result,
     message |-> message, data |-> Undefined]
JsonNull ==
    [t |-> "null", status |-> Undefined, result |-> Undefined,
     message |-> Undefined, data |-> Undefined]
JsonNumber ==
    [t |-> "number", status |-> Undefined, result |-> Undefined,
     message |-> Undefined, data |-> Undefined]
SyntaxError ==
    [t |-> "SyntaxError", status |-> Undefined, result |-> Undefined,
     message |-> Undefined, data |-> Undefined]

\* { status: "raw", data: data }
Raw(data) ==
    [t |-> "object", status |-> Str("raw"), result |-> Undefined,
     message |-> Undefined, data |-> Str(data)]

\* The chunks received, each with the value JSON.parse gives for its text
Chunks ==
    {[text |-> "", json |-> SyntaxError],
     [text |-> "   ", json |-> SyntaxError],
     [text |-> "\n", json |-> SyntaxError],
     [text |-> "not json", json |-> SyntaxError],
     [text |-> "{\"status\":\"succ", json |-> SyntaxError],
     [text |-> "{\"status\":\"success\",\"message\":\"ok\"}",
      json |-> Obj(Str("success"), Undefined, Str("ok"))],
     [text |-> "{\"status\":\"error\",\"message\":\"bad\"}",
      json |-> Obj(Str("error"), Undefined, Str("bad"))],
     [text |-> "{\"status\":\"success\",\"result\":42}",
      json |-> Obj(Str("success"), Num("42"), Undefined)],
     [text |-> "{\"result\":42}", json |-> Obj(Undefined, Num("42"), Undefined)],
     [text |-> "{\"result\":0}", json |-> Obj(Undefined, Num("0"), Undefined)],
     [text |-> "{\"result\":false}",
      json |-> Obj(Undefined, Bool("false"), Undefined)],
     [text |-> "{\"result\":\"\"}", json |-> Obj(Undefined, Str(""), Undefined)],
     [text |-> "{\"status\":\"result\",\"result\":2}",
      json |-> Obj(Str("result"), Num("2"), Undefined)],
     [text |-> "{\"foo\":1}", json |-> Obj(Undefined, Undefined, Undefined)],
     [text |-> "42", json |-> JsonNumber],
     [text |-> "null", json |-> JsonNull]}

\* JSON.parse(data)
JsonParse(data) == (CHOOSE c \in Chunks : c.text = data).json

\* !data || data.trim() === ""
IsBlank(data) == data = "" \/ data \in {"   ", "\n"}

\* LilaSession.handleResponse(response): the line it appends, or that it threw.
\* Reading response.status of null throws; fails says that the output sink
\* raises in this call.
HandleResponse(response, fails) ==
    IF response.t = "null" \/ fails
    THEN [threw |-> TRUE, line |-> ""]
    ELSE IF response.status = Str("success")
    THEN [threw |-> FALSE, line |-> "Success"]
    ELSE IF response.status = Str("error")
    THEN [threw |-> FALSE, line |-> "ErrorResult"]
    ELSE IF JsTruthy(response.result)
    THEN [threw |-> FALSE, line |-> "ValueResult"]
    ELSE [threw |-> FALSE, line |-> "Unclassified"]

\* this.options.onResponse(response) on decoding state d, the handler raising
\* or not in this call
CallOnResponse(d, response, fails) ==
    LET r == HandleResponse(response, fails)
    IN  [dec |-> [d.dec EXCEPT !.delivered = Append(@, response)],
         out |-> IF r.threw THEN d.out ELSE Append(d.out, r.line),
         threw |-> r.threw]

\* handleData(data); fails: the handler raises in its first call
DoHandleData(out, data, fails) ==
    LET d0 == [dec |-> [data |-> data, fails |-> fails, delivered |-> <<>>,
                        uncaught |-> FALSE],
               out |-> out, threw |-> FALSE]
        parsed == JsonParse(data)
    IN  IF IsBlank(data) THEN d0
        ELSE IF parsed.t = "SyntaxError"
        THEN LET d1 == CallOnResponse(d0, Raw(data), fails)
             IN  [d1 EXCEPT !.dec.uncaught = d1.threw]
        ELSE LET d1 == CallOnResponse(d0, parsed, fails)
             IN  IF d1.threw
                 THEN CallOnResponse(d1, Raw(data), FALSE)
                 ELSE d1

\* A 'data' event of the socket
HandleData(data, fails) ==
    /\ Len(outputChannel) < MaxLines
    /\ LET d == DoHandleData(outputChannel, data, fails)
       IN  /\ decoder' = d.dec
           /\ outputChannel' = d.out
    /\ UNCHANGED <<clientVars, serverVars>>

DecodeNext == \E c \in Chunks, fails \in BOOLEAN : HandleData(c.text, fails)

DecodeSpec == Init /\ [][DecodeNext]_vars

----------------------------------------------------------------------------
\* LilaServer

\* What launching the backend does: it succeeds, vscode.window.createTerminal
\* throws, or terminal.show() throws
Launches == {"ok", "createThrows", "showThrows"}

\* LilaServer.setState(state); seen is the list of the states set by the method
SrvSetState(v, st) == [v EXCEPT !.srv.state = st, !.seen = Append(@, st)]

\* The terminal vscode.window.createTerminal returns: the next unused one
NewTerminal(v) == 1 + Cardinality({i \in Terminals : v.terms[i] # "none"})

\* start(), on v = [srv, terms, seen, ret]
DoStart(v, launch) ==
    IF v.srv.process # 0 THEN [v EXCEPT !.ret = TRUE]
    ELSE LET v1 == SrvSetState(v, "starting")
             i == NewTerminal(v)
             failed(w) == [SrvSetState(w, "error") EXCEPT !.ret = FALSE]
         IN  IF launch = "createThrows" THEN failed(v1)
             ELSE LET v2 == [v1 EXCEPT !.terms[i] = "open", !.srv.terminal = i]
                  IN  IF launch = "showThrows" THEN failed(v2)
                      ELSE [SrvSetState(v2, "running") EXCEPT !.ret = TRUE]

\* stop()
DoStop(v) ==
    LET v1 == IF v.srv.terminal # 0
              THEN [v EXCEPT !.terms[v.srv.terminal] = "disposed",
                             !.srv.terminal = 0]
              ELSE v
        v2 == IF v1.srv.process # 0 THEN [v1 EXCEPT !.srv.process = 0] ELSE v1
    IN  SrvSetState(v2, "stopped")

\* isRunning()
IsRunning(srv) == srv.state = "running"

SrvCur == [srv |-> server, terms |-> terminals, seen |-> <<>>, ret |-> FALSE]

SrvInstall(v, op) ==
    /\ server' = v.srv
    /\ terminals' = v.terms
    /\ srvLast' = [op |-> op, ret |-> v.ret, seen |-> v.seen]
    /\ UNCHANGED <<clientVars, decodeVars>>

Start(launch) ==
    /\ server.process # 0 \/ launch = "createThrows"
          \/ NewTerminal(SrvCur) <= MaxTerminals
    /\ SrvInstall(DoStart(SrvCur, launch), "start")

Stop == SrvInstall(DoStop(SrvCur), "stop")

ServerNext ==
    \/ \E launch \in Launches : Start(launch)
    \/ Stop

ServerSpec == Init /\ [][ServerNext]_vars

----------------------------------------------------------------------------
\* Helpers of the properties

\* The handles created and not destroyed
Live == {h \in Handles : hPhase[h] # "unused" /\ ~hDestroyed[h]}

\* The units a queue is to be written as
Units(q) == [i \in 1..Len(q) |-> Unit(q[i])]

\* A sequence of units without the handshake lines
Payloads(w) == SelectSeq(w, LAMBDA u : u # Handshake(sessionId))

\* Attempt a can still be settled by a callback: its timer is armed, or its
\* socket is still being established (it may connect or fail)
CallbackLeft(a) ==
    \/ \E i \in 1..Len(timers) : timers[i] = a
    \/ hPhase[a] = "opening" /\ ~hDestroyed[a]

----------------------------------------------------------------------------
\* Properties

\* C1: on every handle, the first unit written is the handshake line
\* "@session <id>\n" carrying the instance's session id.
C1_HandshakeFirst ==
    \A h \in Handles :
        hWritten[h] # <<>> => Head(hWritten[h]) = Handshake(sessionId)

\* C2: a send(p) made in a state other than connected appends p to the queue
\* and writes nothing to any handle.
C2_SendQueuesUnlessConnected ==
    [][(last'.op = "send" /\ state # "connected")
          => /\ messageQueue' = Append(messageQueue, last'.p)
             /\ hWritten' = hWritten]_vars

\* C3: whenever the state is connected, the pending-send queue is empty.
C3_QueueEmptyWhenConnected ==
    state = "connected" => messageQueue = <<>>

\* C4: when a socket on which nothing was written yet is established (and the
\* observer does nothing), the units written are the handshake followed by
\* every queued payload, each once and in order, and the queue is left empty.
C4_QueueFlushedInOrder ==
    [][\A h \in Handles :
          (OnConnect(h, NoReaction) /\ socket = h /\ hWritten[h] = <<>>)
            => /\ hWritten'[h] = <<Handshake(sessionId)>> \o Units(messageQueue)
               /\ messageQueue' = <<>>]_vars

\* C5: when a socket is established while payloads (none of them empty) are
\* queued and the observer calls send(p) on being notified of connected, the
\* queued payloads are written before p.
C5_DrainBeforeObserverSend ==
    [][\A h \in Handles, p \in Payload :
          (/\ OnConnect(h, [k |-> "send", p |-> p])
           /\ socket = h
           /\ hWritten[h] = <<>>
           /\ messageQueue # <<>>
           /\ \A i \in 1..Len(messageQueue) : Truthy(messageQueue[i]))
            => Payloads(hWritten'[h]) = Units(messageQueue) \o <<Unit(p)>>]_vars

\* C6: a connect() resolves true only when the socket it is about has been
\* established, and false only in a handler that set the state to error.
C6_ConnectResultTruthful ==
    [][/\ (last'.op = "connect" /\ last'.h = 0) => hPhase[socket] = "open"
       /\ \A a \in Handles :
            (resolved[a] = "pending" /\ resolved'[a] = "true")
                => hPhase'[a] = "open"
       /\ \A a \in Handles :
            (resolved[a] = "pending" /\ resolved'[a] = "false")
                => \E i \in 1..Len(notified') : notified'[i] = "error"]_vars

\* C7: a connect() that is still unresolved has a callback left that can
\* resolve it (so that it resolves once its callbacks are delivered).
C7_PendingConnectCanResolve ==
    \A a \in Handles :
        (~hung /\ resolved[a] = "pending") => CallbackLeft(a)

\* C8: when the timer of an attempt fires while its socket is still being
\* established, the state is set to error, the attempt resolves false, the
\* socket is destroyed and the instance holds no live socket.
C8_TimeoutFailsAttempt ==
    [][\A a \in Handles :
          (/\ last'.op = "timeout" /\ last'.h = a
           /\ timers # <<>> /\ Head(timers) = a
           /\ hPhase[a] = "opening" /\ ~hDestroyed[a])
            => /\ notified' # <<>> /\ Head(notified') = "error"
               /\ resolved'[a] = "false"
               /\ hDestroyed'[a]
               /\ (socket' = 0 \/ hDestroyed'[socket'])]_vars

\* C9: connect() while a live handle is held changes nothing (no new handle,
\* no write, state and queue as before, no timer, no notification), and at
\* most one handle is live at any time.
C9_ConnectWhileHeldIsNoop ==
    [][/\ (last'.op = "connect" /\ socket # 0 /\ ~hDestroyed[socket])
            => /\ UNCHANGED <<state, socket, messageQueue, hPhase, hDestroyed,
                              hWritten, hClosePending, timers, resolved>>
               /\ notified' = <<>>
               /\ last'.h = 0
       /\ Cardinality(Live') <= 1]_vars

\* connect() returned at once while the socket was still being established
C9_Witness ==
    /\ last.op = "connect" /\ last.h = 0
    /\ state = "connecting"
    /\ socket # 0 /\ hPhase[socket] = "opening" /\ ~hDestroyed[socket]

\* C10: a connect() that sets the state to connecting starts from the state
\* disconnected.
C10_ConnectingOnlyFromDisconnected ==
    [][(last'.op = "connect" /\ last'.h # 0) => state = "disconnected"]_vars

\* C11: the observer is called only for a change of state: the first state a
\* handler notifies differs from the state the handler started in.
C11_NotifiedOnlyOnChange ==
    [][notified' # <<>> => Head(notified') # state]_vars

\* C12: disconnect() leaves the state disconnected, no socket held and none
\* live, and the queue as it was (plus the payload of a send() the observer
\* makes while it is notified).
C12_DisconnectFrame ==
    [][/\ last'.op = "disconnect"
            => /\ state' = "disconnected"
               /\ socket' = 0
               /\ Live' = {}
               /\ \/ messageQueue' = messageQueue
                  \/ \E p \in Payload : /\ Disconnect([k |-> "send", p |-> p])
                                        /\ messageQueue' = Append(messageQueue, p)
       /\ Disconnect(NoReaction) => messageQueue' = messageQueue]_vars

\* disconnect() ran on an instance that held a live socket and had a payload
\* queued: the socket is gone (its 'close' is due) and the payload still queued
C12_Witness ==
    /\ last.op = "disconnect"
    /\ messageQueue # <<>>
    /\ notified = <<"disconnected">>
    /\ \E h \in Handles : hClosePending[h] /\ hPhase[h] = "open"

\* C13: isConnected() is true exactly when the state is connected and the held
\* socket is live; once the remote end has closed the socket it is false, also
\* before the 'close' listener has run.
C13_IsConnectedReflectsHandle ==
    /\ IsConnected(Cur) <=> (state = "connected" /\ socket \in Live)
    /\ (last.op = "remoteClose" /\ socket = last.h) => ~IsConnected(Cur)

\* The remote end closed the held socket, 'close' is not delivered yet and the
\* state still reads connected
C13_Witness ==
    /\ last.op = "remoteClose"
    /\ socket = last.h
    /\ hClosePending[socket]
    /\ GetState(Cur) = "connected"
    /\ ~IsConnected(Cur)

\* C17: when established socket h fails while the state is connected, the state
\* is set to error, stays error until the 'close' listener of h runs (or
\* disconnect() is called), and is disconnected after it.
C17_ErrorThenDisconnected ==
    [][\A h \in Handles :
          /\ (last'.op = "onError" /\ last'.h = h /\ state = "connected")
                => Head(notified') = "error"
          /\ (state = "error" /\ socket = h /\ hPhase[h] = "open"
                /\ hClosePending[h])
                => state' \in {"error", "disconnected"}
          /\ (last'.op = "onClose" /\ last'.h = h /\ state = "error")
                => Head(notified') = "disconnected"]_vars

\* C18: when the timer of attempt a fires and a is not the socket the instance
\* holds (a later attempt is under way), no socket is destroyed, the state is
\* left as it was and the observer is not called.
C18_StaleTimerHarmless ==
    [][\A a \in Handles :
          (/\ last'.op = "timeout" /\ last'.h = a
           /\ timers # <<>> /\ Head(timers) = a
           /\ socket # a)
            => /\ hDestroyed' = hDestroyed
               /\ state' = state
               /\ notified' = <<>>]_vars

\* C19: when a 'close' listener has left the state disconnected, the instance
\* holds no live socket.
C19_DisconnectedHoldsNoHandle ==
    (state = "disconnected" /\ last.op = "onClose") => Live = {}

\* C20: the drain of the queue on entering connected terminates.
C20_DrainTerminates == ~hung

\* The variant the chunk's parsed payload is to be classified as
Expected(json) ==
    IF json.status = Str("success") THEN "Success"
    ELSE IF json.status = Str("error") THEN "ErrorResult"
    ELSE IF json.result # Undefined THEN "ValueResult"
    ELSE "Unclassified"

\* C14: a chunk that parses as an object (the handler not raising) is shown as
\* Success, ErrorResult, ValueResult (a result field present, whatever its
\* value) or Unclassified, in that order of precedence; a chunk that does not
\* parse is delivered as Raw carrying the chunk's text.
C14_DecodeClassification ==
    LET json == JsonParse(decoder.data)
    IN  (~IsBlank(decoder.data) /\ ~decoder.fails /\ decoder.delivered # <<>>)
          => /\ json.t = "object"
                  => /\ decoder.delivered = <<json>>
                     /\ outputChannel[Len(outputChannel)] = Expected(json)
             /\ json.t = "SyntaxError"
                  => decoder.delivered = <<Raw(decoder.data)>>

\* C16: the response handler is called once for a chunk that is not blank and
\* not at all for a blank one.
C16_OneDeliveryPerChunk ==
    Len(decoder.delivered) = IF IsBlank(decoder.data) THEN 0 ELSE 1

\* C15: start() while a live terminal is held and the state is running (the
\* last start() succeeded, stop() was not called since) returns true and
\* creates no terminal, keeps the held one and sets no state.
C15_StartWhileRunningIsNoop ==
    [][(/\ srvLast'.op = "start"
        /\ IsRunning(server)
        /\ server.terminal # 0
        /\ terminals[server.terminal] = "open")
          => /\ srvLast'.ret
             /\ srvLast'.seen = <<>>
             /\ terminals' = terminals
             /\ server' = server]_vars

====
